---- MODULE Spec2Model ----
(***************************************************************************)
(* A model of fync.Sync (src/fync.go): the orchestrator goroutine, one     *)
(* worker goroutine per server mod in the write phase, one worker          *)
(* goroutine per orphan in the backup phase, the buffered error channel,   *)
(* the mutex guarding localMods, and the two directories on disk.          *)
(***************************************************************************)
EXTENDS Integers, Sequences, FiniteSets, TLC

(* ------------------------------ bounds --------------------------------- *)

\* largest number of entries found in the mods directory before the run
MaxLocal == 2

\* the lengths the server declares range over 1..MaxSize
MaxSize == 2

\* the length of every file found in the mods directory before the run: the
\* code only tests it for equality with a declared length
LocalSize == 1

\* largest number of I/O calls the environment makes fail in one run, on top
\* of the failures the directory state itself forces
MaxFaults == 1

\* file names: three that carry the ".jar" suffix and one that does not
Names == {"a.jar", "b.jar", "c.jar", "r.txt"}

\* the names the server may list, each at most once; a run has one
\* write-phase worker per listed name
ServerNames == {"a.jar", "b.jar"}

\* the names that may be those of directories before the run
DirNames == {"a.jar"}

Sizes == 1..MaxSize

(* ------------------------------ values --------------------------------- *)

\* the nil error
Nil == [op |-> "nil", name |-> ""]

\* errors.New("no server mods to sync")
ErrNoMods == [op |-> "no server mods to sync", name |-> ""]

\* the error an I/O call returns
Err(op, name) == [op |-> op, name |-> name]

\* a regular file of the given length; src tells the pre-run bytes ("local")
\* from the bytes a server mod wrote ("server")
File(size, src) == [dir |-> FALSE, size |-> size, src |-> src]

\* a directory entry
Dir == [dir |-> TRUE, size |-> 0, src |-> "local"]

\* the empty map; a nil map reads, counts and deletes like it
EmptyMap == [n \in {} |-> 0]

\* partial functions from names to values
Maps(S, V) == UNION {[D -> V] : D \in SUBSET S}

BoundedMaps(S, V, k) == UNION {[D -> V] : D \in {X \in SUBSET S : Cardinality(X) <= k}}

Remove(f, n) == [x \in DOMAIN f \ {n} |-> f[x]]

Put(f, n, v) == [x \in DOMAIN f \cup {n} |-> IF x = n THEN v ELSE f[x]]

\* strings.HasSuffix
HasSuffix(s, suffix) ==
    /\ Len(s) >= Len(suffix)
    /\ SubSeq(s, Len(s) - Len(suffix) + 1, Len(s)) = suffix

VARIABLES
    o,          \* *SyncOptions: Force, KeepExisting, and which callbacks are bound
    dirErr,     \* package variable dirErr: TRUE when path resolution failed
    server,     \* what s.Mods() lists: name -> declared size
    modsExists, \* whether modsDir exists
    mods,       \* entries of modsDir (the backup subdirectory aside): name -> entry
    mods0,      \* the entries of modsDir when Sync was called
    run,        \* which call of Sync this is: 1, or 2 when Sync was called again
    after1,     \* modsDir and backupDir as the first call left them
    backupExists, \* whether backupDir (modsDir/backup) exists
    backupd,    \* entries of backupDir: name -> entry
    pc,         \* where the orchestrator (the goroutine running Sync) is
    ret,        \* what Sync returned (Nil or an error), once pc = "returned"
    serverMods, \* the slice s.Mods() returned: the names of its elements
    localMods,  \* map[string]int64
    scanned,    \* whether ioutil.ReadDir(modsDir) was called
    snapshot,   \* localMods as line 127 left it
    got,        \* iterations the current collection loop has run
    total,      \* local variable total
    curr,       \* local variable curr
    ch,         \* the channel variable ch: buffer, capacity, closed, and how
                \* many values each worker has put on it
    mu,         \* sync.Mutex: "free" or the name of the worker holding it
    tpc,        \* write-phase worker of each server mod: its position
    terr,       \* the result that worker is about to send
    bpc,        \* backup-phase worker of each orphan: its position
    berr,       \* the result that worker is about to send
    closes,     \* per server mod, how many times Close() was called
    recvd,      \* every result the orchestrator has received, in order
    events,     \* OnProgress calls, in order
    notified,   \* OnWrite / OnBackup calls: {<<"write"|"backup", name>>}
    writes,     \* names write() was invoked for
    compared,   \* names whose size was looked up in localMods
    renames,    \* backup() invocations: {<<"write" | "backup", name>>}
    mkdirs,     \* directories os.MkdirAll was called on
    faults,     \* I/O calls the environment has made fail so far
    panicked    \* a goroutine panicked: the process is gone

vars == <<o, dirErr, server, run, after1, modsExists, mods, mods0, backupExists, backupd, pc,
          ret, serverMods, localMods, scanned, snapshot, got, total, curr, ch, mu, tpc, terr, bpc,
          berr, closes, recvd, events, notified, writes, compared, renames,
          mkdirs, faults, panicked>>

fsVars == <<modsExists, mods, backupExists, backupd>>
inputVars == <<o, dirErr, server, mods0, run, after1>>
orchVars == <<pc, ret, serverMods, total, curr, recvd, events, mkdirs, scanned,
              snapshot, got>>
writeVars == <<tpc, terr, closes, writes, compared>>
backupVars == <<bpc, berr>>

(* ------------------------------- inputs -------------------------------- *)

\* SyncOptions values: both flags free, the three callbacks all bound or all nil
Options ==
    {[Force |-> f, KeepExisting |-> k, OnWrite |-> c, OnBackup |-> c, OnProgress |-> c] :
        f \in BOOLEAN, k \in BOOLEAN, c \in BOOLEAN}

\* what a mods directory may hold before the run
LocalEntries == {File(LocalSize, "local"), Dir}

\* the directory listings a run may start from
Listings ==
    {f \in BoundedMaps(Names, LocalEntries, MaxLocal) :
        \A n \in DOMAIN f : f[n].dir => n \in DirNames}

\* make(chan error, n)
MakeChan(n) == [buf |-> <<>>, cap |-> n, closed |-> FALSE, sent |-> [x \in Names |-> 0]]

\* the state when Sync is called with a server listing names among S: any
\* options, any server list, any listing; the backup directory, when it
\* exists, starts empty
Start(S) ==
    /\ o \in Options
    /\ dirErr \in BOOLEAN
    /\ server \in Maps(S, Sizes)
    /\ run = 1
    /\ after1 = [mods |-> EmptyMap, backupd |-> EmptyMap]
    /\ modsExists \in BOOLEAN
    /\ mods \in IF modsExists THEN Listings ELSE {EmptyMap}
    /\ backupExists \in IF modsExists THEN BOOLEAN ELSE {FALSE}
    /\ backupd = EmptyMap
    /\ mods0 = mods
    /\ pc = "start"
    /\ ret = Nil
    /\ serverMods = {}
    /\ localMods = EmptyMap
    /\ scanned = FALSE
    /\ snapshot = EmptyMap
    /\ got = 0
    /\ total = 0
    /\ curr = 0
    /\ ch = MakeChan(0)
    /\ mu = "free"
    /\ tpc = [n \in Names |-> "none"]
    /\ terr = [n \in Names |-> Nil]
    /\ bpc = [n \in Names |-> "none"]
    /\ berr = [n \in Names |-> Nil]
    /\ closes = [n \in Names |-> 0]
    /\ recvd = <<>>
    /\ events = <<>>
    /\ notified = {}
    /\ writes = {}
    /\ compared = {}
    /\ renames = {}
    /\ mkdirs = {}
    /\ faults = 0
    /\ panicked = FALSE

\* the state when Sync is called
Init == Start(ServerNames)

\* the process is running and the environment may still make one more call fail
CanFault == faults < MaxFaults

Alive == ~panicked

(* ---------------------------- fync.go:92-239 --------------------------- *)

\* Sync returns r
Return(r) ==
    /\ pc' = "returned"
    /\ ret' = r

\* the empty check dropped
NoMods_Never(n) == FALSE

\* line 104: total == 0
NoMods(n) == n = 0

\* lines 93-106: the dirErr check, s.Mods() and the empty check
ListMods ==
    /\ Alive
    /\ pc = "start"
    /\ \/ /\ dirErr
          /\ Return(Err("dirErr", ""))
          /\ UNCHANGED <<serverMods, total, faults>>
       \/ /\ ~dirErr
          /\ CanFault
          /\ faults' = faults + 1
          /\ Return(Err("Mods", ""))
          /\ UNCHANGED <<serverMods, total>>
       \/ /\ ~dirErr
          /\ serverMods' = DOMAIN server
          /\ total' = Cardinality(DOMAIN server)
          /\ IF NoMods(total')
                THEN Return(ErrNoMods)
                ELSE pc' = "mkdir" /\ ret' = ret
          /\ UNCHANGED faults
    /\ UNCHANGED <<inputVars, fsVars, localMods, scanned, snapshot, got, curr, ch,
                   mu, writeVars, backupVars, recvd, events, notified, renames,
                   mkdirs, panicked>>

\* the inventory built whatever the options
NeedInventory_Always(opts) == TRUE

\* line 115: !(o.KeepExisting && o.Force)
NeedInventory(opts) == ~(opts.KeepExisting /\ opts.Force)

\* lines 108-111: os.MkdirAll(modsDir, ...)
MkdirMods ==
    /\ Alive
    /\ pc = "mkdir"
    /\ mkdirs' = mkdirs \cup {"mods"}
    /\ \/ /\ CanFault
          /\ faults' = faults + 1
          /\ Return(Err("MkdirAll", "mods"))
          /\ UNCHANGED modsExists
       \/ /\ modsExists' = TRUE
          /\ pc' = IF NeedInventory(o) THEN "readdir" ELSE "dispatch"
          /\ UNCHANGED <<ret, faults>>
    /\ UNCHANGED <<inputVars, mods, backupExists, backupd, serverMods, localMods,
                   scanned, snapshot, got, total, curr, ch, mu, writeVars,
                   backupVars, recvd, events, notified, renames, panicked>>

\* the suffix test dropped from line 123
IsLocalMod_AnyFile(name, entry) == ~entry.dir

\* line 123: !files[i].IsDir() && strings.HasSuffix(files[i].Name(), ".jar")
IsLocalMod(name, entry) == ~entry.dir /\ HasSuffix(name, ".jar")

\* lines 121-126: the inventory of a directory listing
Inventory(files) ==
    [n \in {x \in DOMAIN files : IsLocalMod(x, files[x])} |-> files[n].size]

\* lines 113-127: ioutil.ReadDir(modsDir) and the localMods map
ReadDir ==
    /\ Alive
    /\ pc = "readdir"
    /\ scanned' = TRUE
    /\ \/ /\ CanFault
          /\ faults' = faults + 1
          /\ Return(Err("ReadDir", "mods"))
          /\ UNCHANGED <<localMods, snapshot>>
       \/ /\ localMods' = Inventory(mods)
          /\ snapshot' = localMods'
          /\ pc' = "dispatch"
          /\ UNCHANGED <<ret, faults>>
    /\ UNCHANGED <<inputVars, fsVars, serverMods, got, total, curr, ch, mu,
                   writeVars, backupVars, recvd, events, notified, renames, mkdirs,
                   panicked>>

\* o.OnProgress(task, c, t), when bound
Progress(task, c, t) ==
    events' = IF o.OnProgress THEN Append(events, <<task, c, t>>) ELSE events

\* lines 129-191: the first progress call, make(chan error, total), and one
\* goroutine per server mod
Dispatch ==
    /\ Alive
    /\ pc = "dispatch"
    /\ curr' = 0
    /\ Progress("write", 0, total)
    /\ ch' = MakeChan(total)
    /\ tpc' = [n \in Names |-> IF n \in serverMods THEN "stat" ELSE "none"]
    /\ got' = 0
    /\ recvd' = recvd
    /\ pc' = "collect"
    /\ UNCHANGED <<inputVars, fsVars, ret, serverMods, localMods, scanned, snapshot, total,
                   mu, terr, closes, writes, compared, backupVars, notified,
                   renames, mkdirs, faults, panicked>>

\* a collection loop that ignores the errors it receives
FailFast_Never(err) == FALSE

\* lines 196 and 226: err != nil
FailFast(err) == err # Nil

\* the loop ended after its first iteration
LoopDone_First(g, t) == g >= 1

\* lines 195 and 225: the loop runs once per element it ranges over
LoopDone(g, t) == g = t

\* lines 195-204 and 225-234: one iteration of a collection loop; next is
\* where the orchestrator goes once the loop has run for every task. On an
\* error the channel is closed here and the return is a step of its own.
Collect(here, next) ==
    /\ Alive
    /\ pc = here
    /\ ch.buf # <<>>
    /\ LET err == Head(ch.buf) IN
       /\ recvd' = Append(recvd, err)
       /\ got' = got + 1
       /\ IF FailFast(err)
             THEN /\ ch' = [ch EXCEPT !.buf = Tail(@), !.closed = TRUE]
                  /\ pc' = "abort"
                  /\ ret' = err
                  /\ UNCHANGED <<curr, events>>
             ELSE /\ ch' = [ch EXCEPT !.buf = Tail(@)]
                  /\ curr' = IF o.OnProgress THEN curr + 1 ELSE curr
                  /\ Progress(IF here = "collect" THEN "write" ELSE "backup", curr', total)
                  /\ pc' = IF LoopDone(got', total) THEN next ELSE here
                  /\ ret' = ret
    /\ UNCHANGED <<inputVars, fsVars, serverMods, localMods, scanned, snapshot,
                   total, mu, writeVars, backupVars, notified, renames, mkdirs,
                   faults, panicked>>

\* lines 193-205
CollectWrite == Collect("collect", "orphans")

\* the KeepExisting test dropped from line 208
HasBackupPhase_IgnoresKeep(opts, n) == n # 0

\* line 208: !o.KeepExisting && total != 0
HasBackupPhase(opts, n) == ~opts.KeepExisting /\ n # 0

\* lines 207-222 (and 238 when there is nothing to back up): count the names
\* left in localMods, os.MkdirAll(backupDir, ...) with its error dropped, the
\* first "backup" progress call, a fresh channel and one goroutine per name
Orphans ==
    /\ Alive
    /\ pc = "orphans"
    /\ total' = Cardinality(DOMAIN localMods)
    /\ IF HasBackupPhase(o, total')
          THEN /\ mkdirs' = mkdirs \cup {"backup"}
               /\ \/ /\ CanFault
                     /\ faults' = faults + 1
                     /\ UNCHANGED <<modsExists, backupExists>>
                  \/ /\ modsExists' = TRUE
                     /\ backupExists' = TRUE
                     /\ UNCHANGED faults
               /\ curr' = IF o.OnProgress THEN 0 ELSE curr
               /\ Progress("backup", curr', total')
               /\ ch' = MakeChan(total')
               /\ bpc' = [n \in Names |-> IF n \in DOMAIN localMods THEN "backup" ELSE "none"]
               /\ got' = 0
               /\ pc' = "collect2"
               /\ ret' = ret
          ELSE /\ Return(Nil)
               /\ UNCHANGED <<modsExists, backupExists, mkdirs, faults, curr, events,
                              ch, bpc, got>>
    /\ UNCHANGED <<inputVars, mods, backupd, serverMods, localMods, scanned, snapshot, mu, recvd,
                   writeVars, berr, notified, renames, panicked>>

\* lines 224-238
CollectBackup == Collect("collect2", "success")

\* lines 198 and 228: return err, after close(ch)
Abort ==
    /\ Alive
    /\ pc = "abort"
    /\ Return(ret)
    /\ UNCHANGED <<inputVars, fsVars, serverMods, localMods, scanned, snapshot,
                   got, total, curr, ch, mu, writeVars, backupVars, recvd, events,
                   notified, renames, mkdirs, faults, panicked>>

\* line 238: return nil
Success ==
    /\ Alive
    /\ pc = "success"
    /\ Return(Nil)
    /\ UNCHANGED <<inputVars, fsVars, serverMods, localMods, scanned, snapshot,
                   got, total, curr, ch, mu, writeVars, backupVars, recvd, events,
                   notified, renames, mkdirs, faults, panicked>>

(* ---------------------- fync.go:241-275, the primitives ----------------- *)

\* os.Rename(modsDir/name, backupDir/name) can succeed: both directories and
\* the source exist
CanRename(name) == modsExists /\ backupExists /\ name \in DOMAIN mods

\* lines 241-253: backup(name, o) returning r
Backup(during, name, r) ==
    /\ notified' = IF o.OnBackup THEN notified \cup {<<"backup", name>>} ELSE notified
    /\ renames' = renames \cup {<<during, name>>}
    /\ \/ /\ CanRename(name)
          /\ r = Nil
          /\ backupd' = Put(backupd, name, mods[name])
          /\ mods' = Remove(mods, name)
          /\ UNCHANGED faults
       \/ /\ ~CanRename(name)
          /\ r = Err("Rename", name)
          /\ UNCHANGED <<mods, backupd, faults>>
       \/ /\ CanRename(name)
          /\ CanFault
          /\ faults' = faults + 1
          /\ r = Err("Rename", name)
          /\ UNCHANGED <<mods, backupd>>
    /\ UNCHANGED <<modsExists, backupExists>>

\* os.Create(modsDir/name) can succeed: the directory exists and the name is
\* not that of a directory
CanCreate(name) == modsExists /\ (name \in DOMAIN mods => ~mods[name].dir)

\* lines 255-268: write(from, to, o) up to os.Create, returning r
WriteOpen(name, r) ==
    /\ writes' = writes \cup {name}
    /\ \/ /\ o.OnWrite
          /\ CanFault
          /\ faults' = faults + 1
          /\ r = Err("Stat", name)
          /\ UNCHANGED <<mods, notified>>
       \/ /\ notified' = IF o.OnWrite THEN notified \cup {<<"write", name>>} ELSE notified
          /\ \/ /\ CanCreate(name)
                /\ r = Nil
                /\ mods' = Put(mods, name, File(0, "server"))
                /\ UNCHANGED faults
             \/ /\ ~CanCreate(name)
                /\ r = Err("Create", name)
                /\ UNCHANGED <<mods, faults>>
             \/ /\ CanCreate(name)
                /\ CanFault
                /\ faults' = faults + 1
                /\ r = Err("Create", name)
                /\ UNCHANGED mods
    /\ UNCHANGED <<modsExists, backupExists, backupd>>

\* lines 270-274: from.WriteTo(file), returning r; a failed copy leaves the
\* bytes written so far
WriteCopy(name, r) ==
    /\ \/ /\ r = Nil
          /\ mods' = Put(mods, name, File(server[name], "server"))
          /\ UNCHANGED faults
       \/ /\ CanFault
          /\ faults' = faults + 1
          /\ r = Err("WriteTo", name)
          /\ \E k \in 0..(server[name] - 1) : mods' = Put(mods, name, File(k, "server"))
    /\ UNCHANGED <<modsExists, backupExists, backupd>>

\* what a primitive may return for the file name
Results(name) ==
    {Nil} \cup {Err(op, name) : op \in {"Stat", "Rename", "Create", "WriteTo"}}

(* ------------------- fync.go:138-190, a write-phase worker ------------- *)

\* a worker that never takes its name out of localMods
ClaimsName_Never(opts) == FALSE

\* the delete of line 185 moved into the branch Force skips
ClaimsName_OnlyUnforced(opts) == ~opts.KeepExisting /\ ~opts.Force

\* line 183: !o.KeepExisting
ClaimsName(opts) == ~opts.KeepExisting

\* where a worker goes once its mod is written or skipped (lines 183-189)
Settled == IF ClaimsName(o) THEN "lock2" ELSE "send"

\* the worker of n fails with r (ch <- err; return)
Fail(n, r) ==
    /\ tpc' = [tpc EXCEPT ![n] = "send"]
    /\ terr' = [terr EXCEPT ![n] = r]

\* the worker of n moves on to position p
Goto(n, p) ==
    /\ tpc' = [tpc EXCEPT ![n] = p]
    /\ terr' = terr

\* lines 141-151: mod.Stat(), and the o.Force branch
TStat(n) ==
    /\ Alive
    /\ tpc[n] = "stat"
    /\ \/ /\ CanFault
          /\ faults' = faults + 1
          /\ Fail(n, Err("Stat", n))
       \/ /\ Goto(n, IF o.Force THEN "write" ELSE "lock")
          /\ UNCHANGED faults
    /\ UNCHANGED <<inputVars, fsVars, orchVars, localMods, ch, mu, closes, writes,
                   compared, backupVars, notified, renames, panicked>>

\* Lock() that does not wait for the holder
CanLock_Always(m) == TRUE

\* sync.Mutex: Lock() returns only while no goroutine holds the mutex
CanLock(m) == m = "free"

\* lines 158 and 184: mu.Lock()
TLock(n) ==
    /\ Alive
    /\ tpc[n] \in {"lock", "lock2"}
    /\ CanLock(mu)
    /\ mu' = n
    /\ Goto(n, IF tpc[n] = "lock" THEN "lookup" ELSE "delete")
    /\ UNCHANGED <<inputVars, fsVars, orchVars, localMods, ch, closes, writes,
                   compared, backupVars, notified, renames, faults, panicked>>

\* the backup branch dropped: a mod whose local file has another length is
\* written over it
Decision_OverwritesDifferent(exists, size, rsize) ==
    IF exists /\ size = rsize THEN "skip" ELSE "write"

\* the lookup's exists test inverted: a mod with no local file is skipped
Decision_SkipsNew(exists, size, rsize) ==
    IF ~exists THEN "skip"
    ELSE IF size # rsize THEN "backup"
    ELSE "write"

\* the length comparison dropped: every mod with a local file replaces it
Decision_NoSizeCheck(exists, size, rsize) ==
    IF ~exists THEN "write" ELSE "backup"

\* lines 162-180: what to do with a mod of length rsize, given the lookup
Decision(exists, size, rsize) ==
    IF ~exists THEN "write"
    ELSE IF size # rsize THEN "backup"
    ELSE "skip"

\* lines 159-168: size, exists := localMods[name]; mu.Unlock(); the branch
TLookup(n) ==
    /\ Alive
    /\ tpc[n] = "lookup"
    /\ mu = n
    /\ mu' = "free"
    /\ compared' = compared \cup {n}
    /\ LET exists == n \in DOMAIN localMods
           size == IF exists THEN localMods[n] ELSE 0
           d == Decision(exists, size, server[n])
       IN Goto(n, IF d = "skip" THEN Settled ELSE d)
    /\ UNCHANGED <<inputVars, fsVars, orchVars, localMods, ch, closes, writes,
                   backupVars, notified, renames, faults, panicked>>

\* lines 169-173: backup(name, o)
TBackup(n) ==
    /\ Alive
    /\ tpc[n] = "backup"
    /\ \E r \in Results(n) :
          /\ Backup("write", n, r)
          /\ IF r = Nil THEN Goto(n, "write") ELSE Fail(n, r)
    /\ UNCHANGED <<inputVars, orchVars, localMods, ch, mu, closes, writes, compared,
                   backupVars, panicked>>

\* lines 152, 163, 175: write(mod, dest, o), up to os.Create
TWrite(n) ==
    /\ Alive
    /\ tpc[n] = "write"
    /\ \E r \in Results(n) :
          /\ WriteOpen(n, r)
          /\ IF r = Nil THEN Goto(n, "copy") ELSE Fail(n, r)
    /\ UNCHANGED <<inputVars, orchVars, localMods, ch, mu, closes, compared,
                   backupVars, renames, panicked>>

\* write(mod, dest, o), the copy, and its callers' error checks
TCopy(n) ==
    /\ Alive
    /\ tpc[n] = "copy"
    /\ \E r \in Results(n) :
          /\ WriteCopy(n, r)
          /\ IF r = Nil THEN Goto(n, Settled) ELSE Fail(n, r)
    /\ UNCHANGED <<inputVars, orchVars, localMods, ch, mu, closes, writes, compared,
                   backupVars, notified, renames, panicked>>

\* lines 185-186: delete(localMods, name); mu.Unlock()
TDelete(n) ==
    /\ Alive
    /\ tpc[n] = "delete"
    /\ mu = n
    /\ mu' = "free"
    /\ localMods' = Remove(localMods, n)
    /\ Goto(n, "send")
    /\ UNCHANGED <<inputVars, fsVars, orchVars, ch, closes, writes, compared,
                   backupVars, notified, renames, faults, panicked>>

\* ch <- r: a send on a closed channel panics; otherwise r joins the buffer
Send(n, r) ==
    IF ch.closed
       THEN panicked' = TRUE /\ ch' = ch
       ELSE /\ Len(ch.buf) < ch.cap
            /\ ch' = [ch EXCEPT !.buf = Append(@, r), !.sent[n] = @ + 1]
            /\ panicked' = panicked

\* line 139: defer mod.Close(), run as the goroutine returns or panics
Close(n) == closes' = [closes EXCEPT ![n] = @ + 1]

\* lines 143-144, 154-155, 165-166, 171-172, 177-178, 189-190: ch <- err or
\* ch <- nil, then the goroutine's return with its deferred mod.Close(); when
\* the send panics the deferred call runs before the process dies
TSend(n) ==
    /\ Alive
    /\ tpc[n] = "send"
    /\ Send(n, terr[n])
    /\ Close(n)
    /\ Goto(n, "done")
    /\ UNCHANGED <<inputVars, fsVars, orchVars, localMods, mu, writes, compared,
                   backupVars, notified, renames, faults>>

(* ------------------- fync.go:219-221, a backup-phase worker ------------ *)

\* line 220: backup(mod, o), evaluated before the send
BRename(n) ==
    /\ Alive
    /\ bpc[n] = "backup"
    /\ \E r \in Results(n) :
          /\ Backup("backup", n, r)
          /\ berr' = [berr EXCEPT ![n] = r]
    /\ bpc' = [bpc EXCEPT ![n] = "send"]
    /\ UNCHANGED <<inputVars, orchVars, localMods, ch, mu, writeVars, panicked>>

\* line 220: ch <- the result
BSend(n) ==
    /\ Alive
    /\ bpc[n] = "send"
    /\ Send(n, berr[n])
    /\ bpc' = [bpc EXCEPT ![n] = "done"]
    /\ UNCHANGED <<inputVars, fsVars, orchVars, localMods, mu, writeVars, berr,
                   notified, renames, faults>>

(* ---------------------------- specification ---------------------------- *)

Next ==
    \/ ListMods
    \/ MkdirMods
    \/ ReadDir
    \/ Dispatch
    \/ CollectWrite
    \/ Orphans
    \/ CollectBackup
    \/ Abort
    \/ Success
    \/ \E n \in Names : TStat(n)
    \/ \E n \in Names : TLock(n)
    \/ \E n \in Names : TLookup(n)
    \/ \E n \in Names : TBackup(n)
    \/ \E n \in Names : TWrite(n)
    \/ \E n \in Names : TCopy(n)
    \/ \E n \in Names : TDelete(n)
    \/ \E n \in Names : TSend(n)
    \/ \E n \in Names : BRename(n)
    \/ \E n \in Names : BSend(n)

Spec == Init /\ [][Next]_vars

\* the names a server may list in the runs that call Sync twice: one with the
\* suffix ".jar" and one without
RerunNames == {"a.jar", "r.txt"}

\* the state when Sync is called for the first of two times
InitTwice == Start(RerunNames)

\* the caller, having got nil from Sync, calls it again with the same options
\* and the same server listing; the directories are as the first call left them
Rerun ==
    /\ Alive
    /\ run = 1
    /\ pc = "returned"
    /\ ret = Nil
    /\ run' = 2
    /\ after1' = [mods |-> mods, backupd |-> backupd]
    /\ mods0' = mods
    /\ pc' = "start"
    /\ serverMods' = {}
    /\ localMods' = EmptyMap
    /\ scanned' = FALSE
    /\ snapshot' = EmptyMap
    /\ got' = 0
    /\ total' = 0
    /\ curr' = 0
    /\ ch' = MakeChan(0)
    /\ tpc' = [n \in Names |-> "none"]
    /\ terr' = [n \in Names |-> Nil]
    /\ bpc' = [n \in Names |-> "none"]
    /\ berr' = [n \in Names |-> Nil]
    /\ closes' = [n \in Names |-> 0]
    /\ recvd' = <<>>
    /\ events' = <<>>
    /\ notified' = {}
    /\ writes' = {}
    /\ compared' = {}
    /\ renames' = {}
    /\ mkdirs' = {}
    /\ faults' = 0
    /\ UNCHANGED <<o, dirErr, server, fsVars, ret, mu, panicked>>

NextTwice == Next \/ Rerun

\* two calls of Sync in succession
SpecTwice == InitTwice /\ [][NextTwice]_vars

\* the goroutine that runs Sync
Orchestrator ==
    \/ ListMods
    \/ MkdirMods
    \/ ReadDir
    \/ Dispatch
    \/ CollectWrite
    \/ Orphans
    \/ CollectBackup
    \/ Abort
    \/ Success

\* the goroutine of line 138 for the server mod n
Worker(n) ==
    \/ TStat(n)
    \/ TLock(n)
    \/ TLookup(n)
    \/ TBackup(n)
    \/ TWrite(n)
    \/ TCopy(n)
    \/ TDelete(n)
    \/ TSend(n)

\* the goroutine of line 219 for the orphan n
BackupWorker(n) == BRename(n) \/ BSend(n)

\* the Go scheduler runs every goroutine that can take a step, and every call
\* a goroutine makes returns
Fairness ==
    /\ WF_vars(Orchestrator)
    /\ \A n \in Names : WF_vars(Worker(n)) /\ WF_vars(BackupWorker(n))

\* one call of Sync under a fair scheduler
LiveSpec == Spec /\ Fairness

(* ------------------------------- claims -------------------------------- *)

Returned == pc = "returned"

Succeeded == Returned /\ ret = Nil

\* the regular files of the mods directory whose name ends in ".jar"
JarFiles(d) == {n \in DOMAIN d : ~d[n].dir /\ HasSuffix(n, ".jar")}

\* the file the server mod n leaves in the mods directory
Written(n) == File(server[n], "server")

\* C1: when Sync returns success with KeepExisting unset and every listed name
\* ends in ".jar", the .jar files of the mods directory are exactly the listed
\* names, each with the length its server mod declares.
C1_MirrorsServer ==
    (Succeeded /\ ~o.KeepExisting /\ \A n \in serverMods : HasSuffix(n, ".jar"))
        => /\ JarFiles(mods) = serverMods
           /\ \A n \in serverMods : mods[n].size = server[n]

\* a successful run without KeepExisting and Force that skipped a.jar, wrote
\* b.jar and backed up the orphan c.jar
C1_Witness ==
    /\ Succeeded
    /\ ~o.KeepExisting
    /\ ~o.Force
    /\ serverMods = {"a.jar", "b.jar"}
    /\ "a.jar" \notin writes
    /\ "b.jar" \in writes
    /\ <<"backup", "c.jar">> \in renames

\* C2: a listed name that is not in the inventory snapshot is never renamed
\* into the backup directory by the write phase, and when Sync returns success
\* the mods directory holds a file of that name with the declared length.
C2_WriteNew ==
    \A n \in serverMods :
        n \notin DOMAIN snapshot
            => /\ <<"write", n>> \notin renames
               /\ Succeeded => (n \in DOMAIN mods /\ mods[n] = Written(n))

\* a successful run without Force that wrote a mod missing from the snapshot
C2_Witness ==
    /\ Succeeded
    /\ ~o.Force
    /\ scanned
    /\ \E n \in serverMods : n \notin DOMAIN snapshot /\ n \in writes

\* no worker of either phase is still running
Quiescent ==
    /\ \A n \in Names : tpc[n] \in {"none", "done"}
    /\ \A n \in Names : bpc[n] \in {"none", "done"}

\* the listed names whose local file the snapshot records with another length
\* than the server declares, Force being unset (ReplaceWithBackup)
Replaced ==
    {n \in serverMods : ~o.Force /\ n \in DOMAIN snapshot /\ snapshot[n] # server[n]}

\* C3: once the run is over, the pre-run file of every listed name whose
\* snapshot length differs from the declared one (Force unset) lies unchanged
\* under its name in the backup directory, and the mods directory holds the
\* server's file of the declared length. Stated for the runs in which the
\* environment made no call fail.
C3_ReplaceWithBackup ==
    (Returned /\ Quiescent /\ faults = 0)
        => \A n \in Replaced :
              /\ n \in DOMAIN backupd /\ backupd[n] = mods0[n]
              /\ n \in DOMAIN mods /\ mods[n] = Written(n)

\* the listed names the snapshot records with the declared length, Force unset
\* (Skip)
Skipped ==
    {n \in serverMods : ~o.Force /\ n \in DOMAIN snapshot /\ snapshot[n] = server[n]}

\* C4: for a listed name whose snapshot length equals the declared one (Force
\* unset), write() and backup() are never invoked and the file stays in the
\* mods directory as it was.
C4_SkipUntouched ==
    \A n \in Skipped :
        /\ n \notin writes
        /\ <<"write", n>> \notin renames
        /\ <<"backup", n>> \notin renames
        /\ n \in DOMAIN mods /\ mods[n] = mods0[n]
        /\ n \notin DOMAIN backupd

\* a successful run with KeepExisting unset whose worker has skipped a mod
\* while another mod was written
C4_Witness ==
    /\ Succeeded
    /\ ~o.KeepExisting
    /\ \E n \in Skipped : tpc[n] = "done" /\ n \in compared
    /\ writes # {}

\* the .jar files found before the run that the server does not list
LocalOnly == JarFiles(mods0) \ DOMAIN server

\* C5: a local .jar file the server does not list is, with KeepExisting unset,
\* in the backup directory and out of the mods directory once Sync returns
\* success; with KeepExisting set it is never renamed or written and stays in
\* the mods directory as it was.
C5_Orphans ==
    \A n \in LocalOnly :
        /\ (~o.KeepExisting /\ Succeeded)
              => (n \in DOMAIN backupd /\ backupd[n] = mods0[n] /\ n \notin DOMAIN mods)
        /\ o.KeepExisting
              => /\ <<"write", n>> \notin renames
                 /\ <<"backup", n>> \notin renames
                 /\ n \notin writes
                 /\ n \in DOMAIN mods /\ mods[n] = mods0[n]

\* a successful run with KeepExisting unset that moved two orphans away
C5_Witness ==
    /\ Succeeded
    /\ ~o.KeepExisting
    /\ Cardinality(LocalOnly) = 2
    /\ \A n \in LocalOnly : <<"backup", n>> \in renames /\ n \in DOMAIN backupd

\* C6: when path resolution and s.Mods() succeed and the server lists nothing,
\* Sync returns the "no server mods to sync" error, whatever the options and
\* the directory, having created no directory, started no worker, written
\* no file and renamed none.
C6_NoServerMods ==
    (pc # "start" /\ ~dirErr /\ ret # Err("Mods", "") /\ DOMAIN server = {})
        => /\ Returned /\ ret = ErrNoMods
           /\ mkdirs = {}
           /\ mods = mods0
           /\ ~scanned
           /\ \A n \in Names : tpc[n] = "none" /\ bpc[n] = "none"
           /\ writes = {} /\ renames = {} /\ events = <<>> /\ notified = {}
           /\ backupd = EmptyMap

\* Sync has returned the error for an empty list, with files in the directory
C6_Witness ==
    /\ Returned
    /\ ret = ErrNoMods
    /\ DOMAIN server = {}
    /\ mods0 # EmptyMap
    /\ o.Force

\* the positions of recvd filled by the write phase's collection loop
WriteResults == {i \in DOMAIN recvd : i <= Cardinality(serverMods)}

\* C7: an error received from the channel is the last result Sync receives and
\* the value Sync returns, so the returned error is the first non-nil result of
\* its phase; and once an error was received in the write phase no backup
\* worker is started, no "backup" progress call is made and os.MkdirAll is
\* not called on the backup directory.
C7_FirstError ==
    /\ \A i \in DOMAIN recvd :
          recvd[i] # Nil => (i = Len(recvd) /\ pc \in {"abort", "returned"} /\ ret = recvd[i])
    /\ (Returned /\ ret # Nil /\ recvd # <<>>) => ret = recvd[Len(recvd)]
    /\ (\E i \in WriteResults : recvd[i] # Nil)
          => /\ \A n \in Names : bpc[n] = "none"
             /\ \A k \in DOMAIN events : events[k][1] # "backup"
             /\ "backup" \notin mkdirs

\* Sync returned the error it received after a nil result, in a run that had
\* an orphan to back up and the progress callback bound
C7_Witness ==
    /\ Returned
    /\ Len(recvd) = 2
    /\ recvd[1] = Nil
    /\ recvd[2] # Nil
    /\ ret = recvd[2]
    /\ ~o.KeepExisting
    /\ o.OnProgress
    /\ DOMAIN localMods # {}

\* C8: no worker ever sends its result on a closed channel, so every
\* dispatched worker runs to its own end after the orchestrator gave up.
C8_NoSendOnClosed == ~panicked

\* C9: once Sync has returned from a call in which the server listed mods and
\* no worker is left running, every listed mod has been closed exactly once.
C9_ClosedOnce ==
    (Returned /\ Quiescent /\ ~panicked /\ serverMods # {})
        => \A n \in serverMods : closes[n] = 1

\* the positions a worker takes when Force is set
ForcedPath == {"none", "stat", "write", "copy", "send", "done"}

\* C10: with Force and KeepExisting both set, Sync never lists the mods
\* directory, never looks a length up, never calls backup() and starts no
\* backup phase; every worker goes from Stat straight to write(), so a worker
\* past its Stat call has invoked write(), and on success every listed mod
\* was written.
C10_ForceKeep ==
    (o.Force /\ o.KeepExisting)
        => /\ ~scanned /\ snapshot = EmptyMap /\ localMods = EmptyMap
           /\ compared = {}
           /\ renames = {}
           /\ "backup" \notin mkdirs
           /\ \A n \in Names : bpc[n] = "none"
           /\ \A k \in DOMAIN events : events[k][1] # "backup"
           /\ mu = "free"
           /\ \A n \in Names :
                 /\ tpc[n] \in ForcedPath
                 /\ tpc[n] \in {"copy", "send", "done"}
                       => (n \in writes \/ terr[n] = Err("Stat", n))
           /\ Succeeded => (serverMods \subseteq writes /\ \A n \in serverMods : mods[n] = Written(n))

\* a successful run with both flags set that overwrote a local file of the
\* declared length and left a local-only .jar file where it was
C10_Witness ==
    /\ Succeeded
    /\ o.Force
    /\ o.KeepExisting
    /\ \E n \in serverMods :
          n \in DOMAIN mods0 /\ ~mods0[n].dir /\ mods0[n].size = server[n] /\ n \in writes
    /\ \E n \in LocalOnly : n \in DOMAIN mods

\* the backup phase was started: line 218 ran
BackupStarted == \E n \in Names : bpc[n] # "none"

\* the workers that have run to their end, of the phase whose channel ch is
Finished ==
    IF BackupStarted THEN {n \in Names : bpc[n] = "done"}
                     ELSE {n \in Names : tpc[n] = "done"}

\* the workers standing at their send on ch
Sending ==
    IF BackupStarted THEN {n \in Names : bpc[n] = "send"}
                     ELSE {n \in Names : tpc[n] = "send"}

\* C12: every worker of either phase puts exactly one result on the phase's
\* channel on every path: no worker puts two, a worker that has run to its
\* end has put one, and a worker standing at its send finds room in the
\* buffer, whether or not Sync is still receiving.
C12_OneSendEach ==
    /\ \A n \in Names : ch.sent[n] <= 1
    /\ \A n \in Finished : ch.sent[n] = 1
    /\ \A n \in Sending : Len(ch.buf) < ch.cap

\* C13: while a write-phase worker is still running, the orchestrator has not
\* counted localMods for the backup phase, no backup-phase worker exists and
\* backup() has not been called for an orphan; and Sync returns success only
\* when every backup-phase worker has run to its end.
C13_PhaseBarrier ==
    /\ (\/ pc \in {"orphans", "collect2", "success"}
        \/ BackupStarted
        \/ \E n \in Names : <<"backup", n>> \in renames)
          => /\ \A n \in Names : tpc[n] \in {"none", "done"}
             /\ mu = "free"
    /\ (pc = "success" \/ Succeeded) => \A n \in Names : bpc[n] \in {"none", "done"}

\* a successful run in which two write-phase workers looked their lengths up
\* and a backup-phase worker renamed an orphan
C13_Witness ==
    /\ Succeeded
    /\ Cardinality(compared) = 2
    /\ \E n \in Names : bpc[n] = "done" /\ <<"backup", n>> \in renames

\* every result of the write phase was received and none was an error
Processed ==
    /\ serverMods # {}
    /\ Len(recvd) >= Cardinality(serverMods)
    /\ \A i \in WriteResults : recvd[i] = Nil

\* C14 as stated, for every policy: once localMods was built and every server
\* mod was processed without error, the names left in localMods are the .jar
\* files of the starting directory that no server mod is named after.
C14_RemainderAnyPolicy ==
    (scanned /\ Processed) => DOMAIN localMods = JarFiles(mods0) \ serverMods

\* C14 amended, KeepExisting unset: once localMods was built and every server
\* mod was processed without error, the names left in localMods are the .jar
\* files of the starting directory that no server mod is named after.
C14_Remainder ==
    (scanned /\ Processed /\ ~o.KeepExisting)
        => DOMAIN localMods = JarFiles(mods0) \ serverMods

\* the write phase ended without error and left one name in localMods, after
\* the names of two server mods were deleted from it; a file without the
\* suffix and this orphan were in the directory
C14_Witness ==
    /\ scanned
    /\ Processed
    /\ ~o.KeepExisting
    /\ serverMods \cap DOMAIN snapshot # {}
    /\ DOMAIN localMods # {}
    /\ DOMAIN localMods # DOMAIN snapshot

\* C15: whenever backup() is called, in either phase, os.MkdirAll was called
\* on the backup directory before.
C15_BackupDirEnsured == renames # {} => "backup" \in mkdirs

\* C16: with Force set and KeepExisting unset no length is compared, backup()
\* is never called for a listed name, a listed name is out of localMods once
\* the write phase is over, no listed name ever lies in the backup directory,
\* and on success every listed mod was written and lies in the mods directory.
C16_ForceOverwrites ==
    (o.Force /\ ~o.KeepExisting)
        => /\ compared = {}
           /\ \A n \in serverMods :
                 /\ <<"write", n>> \notin renames
                 /\ <<"backup", n>> \notin renames
                 /\ n \notin DOMAIN backupd
                 /\ bpc[n] = "none"
                 /\ (pc \in {"orphans", "collect2", "success"} \/ Succeeded)
                       => n \notin DOMAIN localMods
           /\ Succeeded => /\ serverMods \subseteq writes
                           /\ \A n \in serverMods : mods[n] = Written(n)

\* a successful forced run that overwrote a local .jar file the snapshot
\* recorded and moved an orphan to the backup directory
C16_Witness ==
    /\ Succeeded
    /\ o.Force
    /\ ~o.KeepExisting
    /\ \E n \in serverMods : n \in DOMAIN snapshot /\ n \in writes
    /\ \E n \in Names : <<"backup", n>> \in renames /\ n \in DOMAIN backupd

\* C17: a write-phase worker is at its lookup or its delete of localMods
\* exactly while it holds the mutex, so it holds it at no Stat, write, rename
\* or callback; at most one worker is at such a position; and whenever the
\* orchestrator touches localMods (building it, counting it, ranging over it)
\* no write-phase worker is running and the mutex is free.
C17_RaceFree ==
    /\ \A n \in Names : (tpc[n] \in {"lookup", "delete"}) <=> (mu = n)
    /\ Cardinality({n \in Names : tpc[n] \in {"lookup", "delete"}}) <= 1
    /\ pc \in {"readdir", "orphans", "collect2", "success"}
          => /\ \A n \in Names : tpc[n] \in {"none", "done"}
             /\ mu = "free"

\* one worker holds the mutex for its delete while another waits at Lock()
C17_Witness ==
    \E a, b \in Names :
        /\ a # b
        /\ mu = a
        /\ tpc[a] = "delete"
        /\ tpc[b] \in {"lock", "lock2"}

\* the write phase was started: line 138 ran
Dispatched == \E n \in Names : tpc[n] # "none"

\* how many of the results at the positions S of recvd are nil
NilCount(S) == Cardinality({i \in S : recvd[i] = Nil})

\* the positions of recvd filled by the backup phase's collection loop
BackupResults == DOMAIN recvd \ WriteResults

\* the progress calls of one phase after k results: (task, 0, t) .. (task, k, t)
ProgressOf(task, k, t) == [i \in 1..(k + 1) |-> <<task, i - 1, t>>]

\* the progress calls a run in this state must have made
ExpectedEvents ==
    IF ~o.OnProgress \/ ~Dispatched THEN <<>>
    ELSE ProgressOf("write", NilCount(WriteResults), Cardinality(serverMods))
         \o (IF BackupStarted
                THEN ProgressOf("backup", NilCount(BackupResults),
                                Cardinality(LocalOnly))
                ELSE <<>>)

\* C18: with OnProgress bound the calls are ("write", 0, N), then one
\* ("write", k, N) per nil result received, k rising by one and never above
\* N; then, only when KeepExisting is unset and M > 0 orphans exist,
\* ("backup", 0, M) and one ("backup", k, M) per nil result, up to M; every
\* "backup" call comes after every "write" call; and on success the last call
\* of each phase has current = total. Unbound, no call is made.
C18_ProgressSequence ==
    /\ events = ExpectedEvents
    /\ \A k \in DOMAIN events : events[k][2] <= events[k][3]
    /\ (\E k \in DOMAIN events : events[k][1] = "backup")
          => (~o.KeepExisting /\ Cardinality(LocalOnly) > 0)
    /\ (Succeeded /\ o.OnProgress)
          => /\ events[Len(events)][2] = events[Len(events)][3]
             /\ events[Cardinality(serverMods) + 1] =
                   <<"write", Cardinality(serverMods), Cardinality(serverMods)>>

\* a successful run that reported two write results and the backup of an orphan
C18_Witness ==
    /\ Succeeded
    /\ o.OnProgress
    /\ Len(events) >= 5
    /\ events[3] = <<"write", 2, 2>>
    /\ events[Len(events)][1] = "backup"

\* C19: with Force unset, in every state of every run, failed ones included,
\* each .jar file the mods directory held when Sync was called lies unchanged
\* under its name in the mods directory or in the backup directory; and a
\* name the snapshot records for which write() was invoked was renamed into
\* the backup directory before.
C19_NoDataLoss ==
    ~o.Force
        => /\ \A n \in JarFiles(mods0) :
                 \/ n \in DOMAIN mods /\ mods[n] = mods0[n]
                 \/ n \in DOMAIN backupd /\ backupd[n] = mods0[n]
           /\ \A n \in writes \cap DOMAIN snapshot :
                 /\ <<"write", n>> \in renames
                 /\ n \in DOMAIN backupd
                 /\ backupd[n] = mods0[n]

\* a failed run that had replaced a local file of another length: the old
\* file is in the backup directory and the server's file in the mods directory
C19_Witness ==
    /\ Returned
    /\ ret # Nil
    /\ ~o.Force
    /\ \E n \in writes \cap DOMAIN snapshot :
          /\ n \in DOMAIN backupd
          /\ n \in DOMAIN mods
          /\ mods[n] = Written(n)

\* C20: under a fair scheduler, with every call returning, Sync eventually
\* returns, with success or with an error.
C20_Terminates == <>Returned

\* under a fair scheduler the run ends: Sync returns or the process has died
C20_ReturnsOrDies == <>(Returned \/ panicked)

\* C11 as stated: in a second call of Sync that follows a successful first
\* call, KeepExisting unset and the server listing the same, the mods
\* directory and the backup directory are, when the call returns, as the first
\* call left them; and with Force unset the second call invokes neither
\* write() nor backup().
C11_Idempotent ==
    (run = 2 /\ ~o.KeepExisting)
        => /\ Returned => (mods = after1.mods /\ backupd = after1.backupd)
           /\ ~o.Force => (writes = {} /\ renames = {})

\* C11 amended: in such a second call the two directories are as the first
\* call left them when the second call returns success; and with Force unset
\* and every listed name ending in ".jar" the second call invokes neither
\* write() nor backup(), so the directories never change during it.
C11_IdempotentOnSuccess ==
    (run = 2 /\ ~o.KeepExisting)
        => /\ Succeeded => (mods = after1.mods /\ backupd = after1.backupd)
           /\ (~o.Force /\ \A n \in DOMAIN server : HasSuffix(n, ".jar"))
                 => /\ writes = {}
                    /\ renames = {}
                    /\ mods = after1.mods
                    /\ backupd = after1.backupd

\* a second call that returned success after looking the length of a listed
\* .jar up, the first call having moved a file to the backup directory
C11_Witness ==
    /\ run = 2
    /\ Succeeded
    /\ ~o.KeepExisting
    /\ ~o.Force
    /\ \A n \in DOMAIN server : HasSuffix(n, ".jar")
    /\ compared # {}
    /\ after1.backupd # EmptyMap

====
